---- MODULE Spec2Model ----
(***************************************************************************)
(* amaranth_testbench: the History signal tracker (history.py).            *)
(*                                                                         *)
(* One History instance tracking one signal s.  The state is the set of    *)
(* registers History.elaborate() emits (cycle, cyclespassed, history[t],   *)
(* past, and the RiseFallPast registers), the two build-time flags the     *)
(* query builders set (usingPast, usingRiseFallPast), and the driven       *)
(* signal itself.  One Tick is one active clock edge: every register       *)
(* commits at once from the pre-edge values, the last assignment to a      *)
(* register winning.  The query builders are operators giving the value    *)
(* of the expression they return in the current state; *Raises operators   *)
(* say when a builder raises instead of returning.                         *)
(* One-bit expressions are modelled as BOOLEAN.                            *)
(*                                                                         *)
(* Spec follows that one tracker and its signal clock edge by clock edge.  *)
(* The python process is followed by two further specifications over the   *)
(* class attributes of History and SignalUniqueNames and the History       *)
(* instances constructed: SpecRegistry follows the track() calls,          *)
(* SpecProcess the elaborate() calls and each tracker's cycle counter,     *)
(* SpecDesign the trackers of one design clocked together.  SpecScenarioA  *)
(* and SpecScenarioB are Spec for the two worked scenarios.  SpecOneHot    *)
(* builds the oneHot expression of verification.py.  SpecComboLock,        *)
(* SpecFerryMan and SpecBasicCounter clock the designs of examples/ with   *)
(* the tracker their test benches attach; their state is the record dut.   *)
(***************************************************************************)
EXTENDS Integers, Sequences, FiniteSets, TLC

\* ---------------------------------------------------------------- bounds

\* largest numCyclesToTrack a tracker is constructed with
MaxWindow == 3
\* largest width of the tracked signal
MaxWidth == 2
\* clock edges simulated after reset
MaxCycles == 6
\* History instances constructed in one process
MaxTrackers == 2
\* track() calls made in one process
MaxRegistrations == 3
MaxSignals == 3
MaxCrossings == 7

VARIABLES
    numCyclesToTrack,   \* History.numCyclesToTrack (N)
    width,              \* SignalHistory.width (W)
    usingPast,          \* SignalHistory.usingPast
    usingRiseFallPast,  \* SignalHistory.usingRiseFallPast
    elaborated,         \* History.elaborate() has emitted the update logic
    sig,                \* value the tracked signal holds during this cycle
    held,               \* values the signal held during the cycles so far
    cycle,              \* History._cycle
    cyclespassed,       \* History.cyclespassed, bit t
    history,            \* SignalHistory.history[t]
    past_reg,           \* SignalHistory.past
    rose_flag,          \* RiseFallPast.rose
    fell_flag,          \* RiseFallPast.fell
    rose_trace,         \* RiseFallPast.rose_trace, bit t
    fell_trace,         \* RiseFallPast.fell_trace, bit t
    rose_past,          \* RiseFallPast.rose_past
    fell_past,          \* RiseFallPast.fell_past
    HistoryModuleCount, \* History.HistoryModuleCount
    MinCapacity,        \* History.MinCapacity
    MaxCapacity,        \* History.MaxCapacity
    NameIDsUsed,        \* SignalUniqueNames.NameIDsUsed (its keys)
    histname,           \* the __histname attribute of each Signal, if set
    trackers,           \* the History instances, in construction order
    dut                 \* the design under test and the tracker observing it

vars == <<numCyclesToTrack, width, usingPast, usingRiseFallPast, elaborated,
          sig, held, cycle, cyclespassed, history, past_reg, rose_flag,
          fell_flag, rose_trace, fell_trace, rose_past, fell_past,
          HistoryModuleCount, MinCapacity, MaxCapacity, NameIDsUsed,
          histname, trackers, dut>>

config == <<numCyclesToTrack, width>>
flags == <<usingPast, usingRiseFallPast>>
registers == <<cycle, cyclespassed, history, past_reg, rose_flag, fell_flag,
               rose_trace, fell_trace, rose_past, fell_past>>
classState == <<HistoryModuleCount, MinCapacity, MaxCapacity>>
registry == <<NameIDsUsed, histname>>
process == <<classState, registry, trackers>>

\* ------------------------------------------------------------- bit vectors

\* amaranth bits_for(n): bits needed for the unsigned value n
bits_for(n) == CHOOSE b \in 1..(n + 1) : 2^b > n /\ (b = 1 \/ 2^(b - 1) <= n)

\* width of Signal(range(numCyclesToTrack + 1))
CycleWidth == bits_for(numCyclesToTrack)

\* a value assigned to a register of w bits is truncated to w bits
Truncate(x, w) == x % (2^w)

\* x[lo:hi] of a register of len bits (python slice indices clip to len)
Slice(x, lo, hi, len) ==
    LET l == IF lo > len THEN len ELSE lo
        h == IF hi > len THEN len ELSE hi
    IN  IF h <= l THEN 0 ELSE (x \div (2^l)) % (2^(h - l))

\* the number of ticks elapsed since reset
Now == Len(held)

\* values the design under test drives onto a W-bit signal
Stimulus(w) == {0, 1, 2^(w - 1)}

\* ------------------------------------------------------------ slice bounds

sizeFor == width

\* mutant: the slice of step k taken one sample further back
sliceStartOneBased(ssize, cycleNum) == (cycleNum + 1) * ssize

sliceStart(ssize, cycleNum) == cycleNum * ssize

sliceEnd(ssize, cycleNum) == sliceStart(ssize, cycleNum) + ssize

\* -------------------------------------------------------- python process

\* MinCapacity = 1e6 in the class body
ArbitrarilyHuge == 1000000

\* the Signal objects of the process
Signals == {"x", "y"}

\* Signal.name: the signals of the process all carry the same name
SignalName(s) == "s"

\* the f-strings trk{histIdx}_s_{name}, trk{histIdx}_rf_{name}, and the
\* plain names cycle, cyclespassed and {name}
BaseName(prefix, histIdx, name) ==
    [prefix |-> prefix, histIdx |-> histIdx, name |-> name]

\* baseName itself for i = 0, f'{baseName}{i}' otherwise
UniqueName(baseName, i) == [baseName |-> baseName, i |-> i]

\* the first of baseName, baseName1, baseName2, ... not in NameIDsUsed
generateUniqueName(baseName) ==
    UniqueName(baseName,
               CHOOSE i \in 0..Cardinality(NameIDsUsed) :
                   /\ UniqueName(baseName, i) \notin NameIDsUsed
                   /\ \A j \in 0..(i - 1) :
                          UniqueName(baseName, j) \in NameIDsUsed)

\* a History as its constructor leaves it; idx is History._idx
NewTracker(idx, n) ==
    [idx |-> idx,
     numCyclesToTrack |-> n,
     registers |-> <<>>,
     registerInfo |-> [name \in {} |-> 0],
     regmap |-> [name \in {} |-> 0],
     elaborated |-> FALSE,
     assumed |-> {},
     elaboratedAmong |-> 0,
     cycle |-> 0,
     started |-> FALSE]

\* what track(s) does to the History h, name being the generated name
Tracking(h, s, name) ==
    [h EXCEPT !.registerInfo = (name :> s) @@ @,
              !.registers = Append(@, s),
              !.regmap = (name :> Len(h.registers)) @@ @]

\* mutant: the counter bounded by the tracker's own window
ElaboratingOwnWindow(h) ==
    [h EXCEPT !.elaborated = TRUE,
              !.assumed = {h.numCyclesToTrack},
              !.elaboratedAmong = Len(trackers)]

\* what elaborate() settles for the History h: the Assume it emits, if any,
\* bounds the cycle counter by the MinCapacity of that moment
Elaborating(h) ==
    [h EXCEPT !.elaborated = TRUE,
              !.assumed = IF MaxCapacity # 0 THEN {MinCapacity} ELSE {},
              !.elaboratedAmong = Len(trackers)]

\* ---------------------------------------------------------------- Init

\* History(numCyclesToTrack=n) tracking one signal of w bits, at reset; the
\* test bench drives the signal with values of the set driven
Constructed(n, w, driven) ==
    /\ numCyclesToTrack = n
    /\ width = w
    /\ usingPast = FALSE
    /\ usingRiseFallPast = FALSE
    /\ elaborated = FALSE
    /\ sig \in driven
    /\ held = <<>>
    /\ cycle = 0
    /\ cyclespassed = [t \in 0..(numCyclesToTrack - 1) |-> 0]
    /\ history = [t \in 0..(numCyclesToTrack - 1) |-> 0]
    /\ past_reg = 0
    /\ rose_flag = 0
    /\ fell_flag = 0
    /\ rose_trace = [t \in 0..(numCyclesToTrack - 1) |-> 0]
    /\ fell_trace = [t \in 0..(numCyclesToTrack - 1) |-> 0]
    /\ rose_past = 0
    /\ fell_past = 0
    \* a process that has constructed this one History and tracked signal x
    /\ HistoryModuleCount = 1
    /\ MinCapacity = numCyclesToTrack
    /\ MaxCapacity = numCyclesToTrack
    /\ NameIDsUsed = {UniqueName(BaseName("cycle", 0, ""), 0),
                      UniqueName(BaseName("cyclespassed", 0, ""), 0),
                      UniqueName(BaseName("trk_s", 0, SignalName("x")), 0),
                      UniqueName(BaseName("trk_rf", 0, SignalName("x")), 0),
                      UniqueName(BaseName("", 0, SignalName("x")), 0)}
    /\ histname = [s \in Signals |->
                     IF s = "x"
                     THEN {UniqueName(BaseName("", 0, SignalName("x")), 0)}
                     ELSE {}]
    /\ trackers = <<Tracking(NewTracker(0, numCyclesToTrack), "x",
                             UniqueName(BaseName("", 0, SignalName("x")), 0))>>

\* no design is attached: the signal is driven by the test bench alone
NoDesign == [design |-> "none"]

Init ==
    /\ \E n \in 1..MaxWindow : \E w \in 1..MaxWidth :
          Constructed(n, w, Stimulus(w))
    /\ dut = NoDesign

\* ------------------------------------------------------- query builders
\* Building a query before the design is elaborated marks the stores its
\* expression reads, so that elaborate() emits their update logic.

\* past / pastTrue / pastFalse / pastSequence / pastSequenceWas / wasEver
BuildPastQuery ==
    /\ ~elaborated
    /\ usingPast' = TRUE
    /\ UNCHANGED <<config, usingRiseFallPast, elaborated, sig, held, registers>>
    /\ UNCHANGED process
    /\ UNCHANGED dut

\* rose(s) / fell(s) with stepsAgo = 0, roseWithin, fellWithin
BuildEdgeQuery ==
    /\ ~elaborated
    /\ usingRiseFallPast' = TRUE
    /\ usingPast' = TRUE
    /\ UNCHANGED <<config, elaborated, sig, held, registers>>
    /\ UNCHANGED process
    /\ UNCHANGED dut

\* pastRose / pastFell / roseOnCycle / fellOnCycle
BuildPastEdgeQuery ==
    /\ ~elaborated
    /\ usingRiseFallPast' = TRUE
    /\ UNCHANGED <<config, usingPast, elaborated, sig, held, registers>>
    /\ UNCHANGED process
    /\ UNCHANGED dut

\* ------------------------------------------------------------ elaborate

Elaborate ==
    /\ ~elaborated
    /\ elaborated' = TRUE
    /\ trackers' = [trackers EXCEPT ![1] = Elaborating(@)]
    /\ UNCHANGED <<config, flags, sig, held, registers>>
    /\ UNCHANGED <<classState, registry>>
    /\ UNCHANGED dut

\* mutant: started read off the counter, one edge late
startedOneEdgeLate == cycle >= 2

started == cyclespassed[0] = 1

\* Assume(self.cycle < History.MinCapacity), MinCapacity being the window
\* of a lone tracker: it limits the runs a prover admits and leaves the
\* registers, which a simulation clocks past it, as they are
CapacityAssumption == cycle < numCyclesToTrack

bool(x) == x # 0

\* mutant: the accumulator shifted by one bit instead of the signal width
PastShiftOneBit(p, s) == Truncate(p * 2 + s, width * numCyclesToTrack)

\* regInfo.past.eq((regInfo.past << regInfo.width) | sig)
\* mutant: the accumulator shifted by two slices at a time
PastShiftTwoSlices(p, s) ==
    Truncate(p * (2^(2 * width)) + s, width * numCyclesToTrack)

PastShift(p, s) == Truncate(p * (2^width) + s, width * numCyclesToTrack)

\* mutant: the event history shifted by the signal's width
EventShiftBySignalWidth(e, bit) ==
    Truncate(e * (2^width) + bit, numCyclesToTrack)

\* eventHistory.eq((eventHistory << 1) | bit)
EventShift(e, bit) == Truncate(e * 2 + bit, numCyclesToTrack)

\* the cycle position whose If(self.cycle == t) block is active
Recording == cycle \in 0..(numCyclesToTrack - 1)

\* the rise/fall block is emitted for t >= 1 only
EdgeRecording == usingRiseFallPast /\ cycle \in 1..(numCyclesToTrack - 1)

prevStepWasTrue == bool(history[cycle - 1])

\* mutant: a level detector, the previous step ignored
RoseNowLevel == bool(sig)

RoseNow == bool(sig) /\ ~prevStepWasTrue

\* mutant: a fall reported on every change of level
FellNowOnChange == bool(sig) # prevStepWasTrue

FellNow == ~bool(sig) /\ prevStepWasTrue

\* mutant: the first edge setting the counter to 2
NextCycleFromTwo == IF started THEN Truncate(cycle + 1, CycleWidth) ELSE 2

\* mutant: the counter held at the window once it gets there
NextCycleSaturating ==
    IF started
    THEN (IF cycle < numCyclesToTrack THEN cycle + 1 ELSE cycle)
    ELSE 1

\* mutant: the counter wrapping at the window instead of at its width
NextCycleWrapsAtWindow ==
    IF started THEN (cycle + 1) % (numCyclesToTrack + 1) ELSE 1

NextCycle == IF started THEN Truncate(cycle + 1, CycleWidth) ELSE 1

\* one active clock edge, the test bench driving a value of the set driven
\* onto the signal for the next cycle
Clock(driven) ==
    /\ elaborated
    /\ Now < MaxCycles
    /\ cycle' = NextCycle
    /\ cyclespassed' = [t \in 0..(numCyclesToTrack - 1) |->
                          IF t = cycle \/ (t = 0 /\ ~started)
                          THEN 1 ELSE cyclespassed[t]]
    /\ history' = [t \in 0..(numCyclesToTrack - 1) |->
                     IF t = cycle THEN sig ELSE history[t]]
    /\ past_reg' = IF Recording /\ usingPast THEN PastShift(past_reg, sig)
                   ELSE IF ~started THEN 0
                   ELSE past_reg
    /\ rose_flag' = IF EdgeRecording THEN (IF RoseNow THEN 1 ELSE 0)
                    ELSE IF ~started THEN 0
                    ELSE rose_flag
    /\ fell_flag' = IF EdgeRecording THEN (IF FellNow THEN 1 ELSE 0)
                    ELSE IF ~started THEN 0
                    ELSE fell_flag
    /\ rose_trace' = [t \in 0..(numCyclesToTrack - 1) |->
                        IF EdgeRecording /\ t = cycle /\ RoseNow THEN 1
                        ELSE IF ~started THEN 0
                        ELSE rose_trace[t]]
    /\ fell_trace' = [t \in 0..(numCyclesToTrack - 1) |->
                        IF EdgeRecording /\ t = cycle /\ FellNow THEN 1
                        ELSE IF ~started THEN 0
                        ELSE fell_trace[t]]
    /\ rose_past' = IF EdgeRecording
                    THEN EventShift(rose_past, IF RoseNow THEN 1 ELSE 0)
                    ELSE IF ~started THEN 0
                    ELSE rose_past
    /\ fell_past' = IF EdgeRecording
                    THEN EventShift(fell_past, IF FellNow THEN 1 ELSE 0)
                    ELSE IF ~started THEN 0
                    ELSE fell_past
    /\ held' = Append(held, sig)
    /\ sig' \in driven
    /\ trackers' = [trackers EXCEPT
                       ![1] = [@ EXCEPT !.cycle = NextCycle, !.started = TRUE]]
    /\ UNCHANGED <<config, flags, elaborated>>
    /\ UNCHANGED <<classState, registry>>
    /\ UNCHANGED dut

Tick == Clock(Stimulus(width))

\* ------------------------------------------------------ absolute queries

\* an index a python list or a Signal of len entries does not have
IndexError(i, len) == i >= len \/ i < 0 - len

\* only cycleNum > N is refused by name; N itself fails in the indexing
cyclePassedRaises(cycleNum) ==
    \/ cycleNum > numCyclesToTrack
    \/ IndexError(cycleNum, numCyclesToTrack)

\* mutant: a flag that is up only in the cycle after the visit
cyclePassedUnlatched(cycleNum) == cycle = cycleNum + 1

cyclePassed(cycleNum) == cyclespassed[cycleNum] = 1

valueAtRaises(cycleNum) ==
    \/ cycleNum > numCyclesToTrack
    \/ IndexError(cycleNum, numCyclesToTrack)

\* mutant: the low bit of the slot only
valueAtLowBit(cycleNum) == history[cycleNum] % 2

valueAt(cycleNum) == history[cycleNum]

valueTrue(x) == bool(x)

\* mutant: the bitwise complement ~s in place of ~(s.bool())
valueFalseBitwise(x) == bool(Truncate(0 - x - 1, width))

valueFalse(x) == ~bool(x)

\* ------------------------------------------------------ relative queries

pastRaises(stepsAgo) ==
    \/ stepsAgo < 1
    \/ stepsAgo > numCyclesToTrack
    \/ sliceStart(sizeFor, stepsAgo - 1) >= width * numCyclesToTrack
    \/ sliceEnd(sizeFor, stepsAgo - 1) > width * numCyclesToTrack

past(stepsAgo) ==
    Slice(past_reg, sliceStart(sizeFor, stepsAgo - 1),
          sliceEnd(sizeFor, stepsAgo - 1), width * numCyclesToTrack)

\* mutant: the low bit of the slice in place of its bool()
pastTrueLowBit(stepsAgo) == past(stepsAgo) % 2 = 1

pastTrue(stepsAgo) == valueTrue(past(stepsAgo))

\* mutant: the slice one step further back
pastFalseOneStepOff(stepsAgo) == valueFalse(past(stepsAgo + 1))

pastFalse(stepsAgo) == valueFalse(past(stepsAgo))

pastSequenceRaises(numStepsBackWidth) ==
    IF numStepsBackWidth < 2 THEN pastRaises(numStepsBackWidth)
    ELSE numStepsBackWidth > numCyclesToTrack

pastSequence(numStepsBackWidth) ==
    IF numStepsBackWidth < 2 THEN past(numStepsBackWidth)
    ELSE Slice(past_reg, sliceStart(sizeFor, 0),
               sliceEnd(sizeFor, numStepsBackWidth - 1),
               width * numCyclesToTrack)

\* list(reversed(values))
Reversed(values) ==
    [i \in 1..Len(values) |-> values[Len(values) - i + 1]]

\* val |= (pastState & mask) << (sigWidth * i), i from 0
RECURSIVE PackFrom(_, _)
PackFrom(values, i) ==
    IF i > Len(values) THEN 0
    ELSE (values[i] % (2^width)) * (2^(width * (i - 1)))
         + PackFrom(values, i + 1)

orderPastSignalStatesLastToEarliest(valuesFromLastToEarliest) ==
    PackFrom(valuesFromLastToEarliest, 1)

\* mutant: the list packed without reversing it
orderPastSignalStatesNotReversed(valuesFromEarliestToLast) ==
    orderPastSignalStatesLastToEarliest(valuesFromEarliestToLast)

orderPastSignalStatesEarliestToLast(valuesFromEarliestToLast) ==
    orderPastSignalStatesLastToEarliest(Reversed(valuesFromEarliestToLast))

\* nothing is returned for an empty list
pastSequenceWasIsNone(values) == Len(values) = 0

pastSequenceWasRaises(values) ==
    Len(values) # 0 /\ pastSequenceRaises(Len(values) + 1)

pastSequenceWas(values) ==
    /\ cycle >= Len(values)
    /\ pastSequence(Len(values) + 1)
         = orderPastSignalStatesEarliestToLast(values)

\* [value] * numCycles
Repeated(value, n) == [i \in 1..n |-> value]

pastWasConstantIsNone(numCycles) ==
    pastSequenceWasIsNone(Repeated(0, numCycles))

pastWasConstantRaises(numCycles) ==
    pastSequenceWasRaises(Repeated(0, numCycles))

pastWasConstant(value, numCycles) ==
    pastSequenceWas(Repeated(value, numCycles))

wasConstantIsNone(numCyclesBack) ==
    pastSequenceWasIsNone(Repeated(0, numCyclesBack))

wasConstantRaises(numCyclesBack) ==
    pastSequenceWasRaises(Repeated(0, numCyclesBack))

wasConstant(value, numCyclesBack) ==
    pastSequenceWas(Repeated(value, numCyclesBack))

\* ---------------------------------------------------------- edge queries

\* mutant: the stepsAgo < 1 check left out
riseFallPastEventsRaisesNoFloor(stepsAgo, includeStepsBack) ==
    stepsAgo + includeStepsBack > numCyclesToTrack

riseFallPastEventsRaises(stepsAgo, includeStepsBack) ==
    \/ stepsAgo < 1
    \/ stepsAgo + includeStepsBack > numCyclesToTrack

\* mutant: the slice bounds taken from the tracked signal's width
riseFallPastEventsSignalWidth(eventHistory, stepsAgo, includeStepsBack) ==
    Slice(eventHistory, sliceStart(sizeFor, stepsAgo - 1),
          sliceEnd(sizeFor, stepsAgo + includeStepsBack - 1),
          numCyclesToTrack)

\* the slice bounds are those of the one-bit rose / fell signal
riseFallPastEvents(eventHistory, stepsAgo, includeStepsBack) ==
    Slice(eventHistory, sliceStart(1, stepsAgo - 1),
          sliceEnd(1, stepsAgo + includeStepsBack - 1), numCyclesToTrack)

pastRoseRaises(stepsAgo) == riseFallPastEventsRaises(stepsAgo, 0)

pastRose(stepsAgo) == bool(riseFallPastEvents(rose_past, stepsAgo, 0))

pastFellRaises(stepsAgo) == riseFallPastEventsRaises(stepsAgo, 0)

pastFell(stepsAgo) ==
    (cycle >= stepsAgo) /\ bool(riseFallPastEvents(fell_past, stepsAgo, 0))

\* mutant: the started gate left out, as in fell
roseUngated(stepsAgo) ==
    IF stepsAgo # 0 THEN pastRose(stepsAgo)
    ELSE pastFalse(1) /\ valueTrue(sig)

rose(stepsAgo) ==
    IF stepsAgo # 0 THEN pastRose(stepsAgo)
    ELSE started /\ pastFalse(1) /\ valueTrue(sig)

fell(stepsAgo) ==
    IF stepsAgo # 0 THEN pastFell(stepsAgo)
    ELSE pastTrue(1) /\ valueFalse(sig)

roseWithinRaises(numCycles) == riseFallPastEventsRaises(1, numCycles - 1)

fellWithinRaises(numCycles) == riseFallPastEventsRaises(1, numCycles - 1)

\* mutant: the current cycle left out
roseWithinPastOnly(numCycles) ==
    bool(riseFallPastEvents(rose_past, 1, numCycles - 1))

roseWithin(numCycles) ==
    bool(riseFallPastEvents(rose_past, 1, numCycles - 1)) \/ rose(0)

fellWithin(numCycles) ==
    bool(riseFallPastEvents(fell_past, 1, numCycles - 1)) \/ fell(0)

roseOnCycleRaises(atCycle) == atCycle >= numCyclesToTrack

roseOnCycle(atCycle) == rose_trace[atCycle] = 1

fellOnCycleRaises(atCycle) == atCycle >= numCyclesToTrack

fellOnCycle(atCycle) == fell_trace[atCycle] = 1

\* ------------------------------------------------- absolute composites

sequenceRaises(startCycle, numCycles) ==
    startCycle + numCycles > numCyclesToTrack

\* numCycles after "numCycles = numCyclesToTrack - startCycle" clamps it
isEverCount(startCycle, numCycles) ==
    IF startCycle + numCycles > numCyclesToTrack
    THEN numCyclesToTrack - startCycle
    ELSE numCycles

\* range(startCycle, numCycles)
isEverPositions(startCycle, numCycles) ==
    {i \in 0..(numCyclesToTrack - 1) :
        startCycle <= i /\ i < isEverCount(startCycle, numCycles)}

\* the capacity check that follows the clamp
isEverRaises(startCycle, numCycles) ==
    startCycle + isEverCount(startCycle, numCycles) > numCyclesToTrack

\* v stays None when the loop body never runs
isEverIsNone(startCycle, numCycles) ==
    isEverPositions(startCycle, numCycles) = {}

\* mutant: the comparisons joined with & in place of |
isEverAll(value, startCycle, numCycles) ==
    \A i \in isEverPositions(startCycle, numCycles) : valueAt(i) = value

isEver(value, startCycle, numCycles) ==
    \E i \in isEverPositions(startCycle, numCycles) : valueAt(i) = value

\* ~None is a TypeError
isNeverRaises(startCycle, numCycles) == isEverIsNone(startCycle, numCycles)

isNever(value, startCycle, numCycles) == ~isEver(value, startCycle, numCycles)

\* numCycles of 0 means len(values)
followsSequenceCount(values, numCycles) ==
    IF numCycles = 0 THEN Len(values) ELSE numCycles

followsSequenceRaises(values, startCycle, numCycles) ==
    LET n == followsSequenceCount(values, numCycles)
    IN  \/ startCycle >= startCycle + n
        \/ startCycle + n > numCyclesToTrack
        \/ n > Len(values)

\* mutant: the comparisons joined with | in place of &
followsSequenceAny(values, startCycle, numCycles) ==
    \E i \in startCycle..(startCycle + followsSequenceCount(values, numCycles) - 1) :
        valueAt(i) = values[i - startCycle + 1]

followsSequence(values, startCycle, numCycles) ==
    \A i \in startCycle..(startCycle + followsSequenceCount(values, numCycles) - 1) :
        valueAt(i) = values[i - startCycle + 1]

isConstantRaises(startCycle, numCycles) ==
    followsSequenceRaises(Repeated(0, numCycles), startCycle, numCycles)

isConstant(value, startCycle, numCycles) ==
    followsSequence(Repeated(value, numCycles), startCycle, numCycles)

\* ------------------------------------------------- relative composites

wasEverRaises(numCyclesBack) == numCyclesBack > numCyclesToTrack

\* range(1, numCyclesBack)
wasEverSteps(numCyclesBack) == 1..(numCyclesBack - 1)

\* v stays None when the loop body never runs
wasEverIsNone(numCyclesBack) == wasEverSteps(numCyclesBack) = {}

wasEver(value, numCyclesBack) ==
    \E i \in wasEverSteps(numCyclesBack) : past(i) = value

\* ~None is a TypeError
wasNeverRaises(numCyclesBack) ==
    wasEverRaises(numCyclesBack) \/ wasEverIsNone(numCyclesBack)

wasNever(value, numCyclesBack) == ~wasEver(value, numCyclesBack)

Next ==
    \/ BuildPastQuery
    \/ BuildEdgeQuery
    \/ BuildPastEdgeQuery
    \/ Elaborate
    \/ Tick

Spec == Init /\ [][Next]_vars

\* ------------------------------------------------------------ scenarios
\* The tracker of a worked example: its window and signal width are fixed,
\* the test bench drives any run over the example's values.

\* a 1-bit signal in a tracker of window 5
ScenarioAInit == Constructed(5, 1, {0, 1}) /\ dut = NoDesign

SpecScenarioA == ScenarioAInit /\ [][Next]_vars

\* values the test bench drives onto the 4-bit signal
ScenarioBValues == {2, 3, 5, 7, 9}

\* a 4-bit signal in a tracker of window 6
ScenarioBInit == Constructed(6, 4, ScenarioBValues) /\ dut = NoDesign

ScenarioBClock == Clock(ScenarioBValues)

\* only absolute queries are built: they leave the tracker as it is
ScenarioBNext == Elaborate \/ ScenarioBClock

SpecScenarioB == ScenarioBInit /\ [][ScenarioBNext]_vars

\* ------------------------------------------------- the process at large
\* Every History of the process, with its registrations, its elaboration
\* and its cycle counter; the stores of the signals are left at rest.

\* track() calls made so far on the first T trackers
RECURSIVE RegisteredUpTo(_)
RegisteredUpTo(T) ==
    IF T = 0 THEN 0 ELSE Len(trackers[T].registers) + RegisteredUpTo(T - 1)

tracker == <<config, flags, elaborated, sig, held, registers>>

\* History(numCyclesToTrack=n)
NewHistory(n) ==
    /\ Len(trackers) < MaxTrackers
    /\ HistoryModuleCount' = HistoryModuleCount + 1
    /\ MaxCapacity' = IF n > MaxCapacity THEN n ELSE MaxCapacity
    /\ MinCapacity' = IF n < MinCapacity THEN n ELSE MinCapacity
    /\ NameIDsUsed' = NameIDsUsed \cup
           {generateUniqueName(BaseName("cycle", 0, "")),
            generateUniqueName(BaseName("cyclespassed", 0, ""))}
    /\ trackers' = Append(trackers, NewTracker(HistoryModuleCount, n))
    /\ UNCHANGED <<histname, tracker>>
    /\ UNCHANGED dut

\* trackers[T].track(s)
Track(T, s) ==
    LET h == trackers[T]
        name == generateUniqueName(BaseName("", 0, SignalName(s)))
    IN  /\ RegisteredUpTo(Len(trackers)) < MaxRegistrations
        /\ NameIDsUsed' = NameIDsUsed \cup
               {generateUniqueName(BaseName("trk_s", h.idx, SignalName(s))),
                generateUniqueName(BaseName("trk_rf", h.idx, SignalName(s))),
                name}
        /\ histname' = [histname EXCEPT ![s] = {name}]
        /\ trackers' = [trackers EXCEPT ![T] = Tracking(h, s, name)]
        /\ UNCHANGED <<classState, tracker>>
        /\ UNCHANGED dut

\* trackers[T].elaborate(platform)
ElaborateHistory(T) ==
    /\ ~trackers[T].elaborated
    /\ trackers' = [trackers EXCEPT ![T] = Elaborating(@)]
    /\ UNCHANGED <<classState, registry, tracker>>
    /\ UNCHANGED dut

\* mutant: the counter wrapping at the window of its History
CountingWithinWindow(h) ==
    [h EXCEPT !.cycle = IF h.started
                        THEN (h.cycle + 1) % (h.numCyclesToTrack + 1)
                        ELSE 1,
              !.started = TRUE]

\* the cycle counter of the History h after an active clock edge
Counting(h) ==
    [h EXCEPT !.cycle = IF h.started
                        THEN Truncate(h.cycle + 1, bits_for(h.numCyclesToTrack))
                        ELSE 1,
              !.started = TRUE]

\* an active clock edge in the design trackers[T] was elaborated into
ClockHistory(T) ==
    /\ trackers[T].elaborated
    /\ trackers' = [trackers EXCEPT ![T] = Counting(@)]
    /\ UNCHANGED <<classState, registry, tracker>>
    /\ UNCHANGED dut

\* a process that has imported history.py and constructed nothing yet
FreshProcess ==
    /\ HistoryModuleCount = 0
    /\ MinCapacity = ArbitrarilyHuge
    /\ MaxCapacity = 0
    /\ NameIDsUsed = {}
    /\ histname = [s \in Signals |-> {}]
    /\ trackers = <<>>
    /\ numCyclesToTrack = 1
    /\ width = 1
    /\ usingPast = FALSE
    /\ usingRiseFallPast = FALSE
    /\ elaborated = FALSE
    /\ sig = 0
    /\ held = <<>>
    /\ cycle = 0
    /\ cyclespassed = [t \in 0..0 |-> 0]
    /\ history = [t \in 0..0 |-> 0]
    /\ past_reg = 0
    /\ rose_flag = 0
    /\ fell_flag = 0
    /\ rose_trace = [t \in 0..0 |-> 0]
    /\ fell_trace = [t \in 0..0 |-> 0]
    /\ rose_past = 0
    /\ fell_past = 0

ProcessInit == FreshProcess /\ dut = NoDesign

\* ---- the query builders of trackers[T] called with the Signal s: when
\* they raise, the look-up of s among the tracker's registrations included

WindowOf(T) == trackers[T].numCyclesToTrack

\* s.__histname, an AttributeError unless some track(s) has set it
internalNameForRaises(s) == histname[s] = {}

\* self.registerInfo[self.internalNameFor(s)], a KeyError unless the name
\* is a key of this tracker
regInfoForRaises(T, s) ==
    \/ internalNameForRaises(s)
    \/ \E name \in histname[s] : name \notin DOMAIN trackers[T].registerInfo

pastRaisesOn(T, s, stepsAgo) ==
    \/ stepsAgo < 1
    \/ stepsAgo > WindowOf(T)
    \/ regInfoForRaises(T, s)

pastSequenceRaisesOn(T, s, numStepsBackWidth) ==
    IF numStepsBackWidth < 2 THEN pastRaisesOn(T, s, numStepsBackWidth)
    ELSE numStepsBackWidth > WindowOf(T) \/ regInfoForRaises(T, s)

pastSequenceWasRaisesOn(T, s, values) ==
    Len(values) # 0 /\ pastSequenceRaisesOn(T, s, Len(values) + 1)

wasEverIsNoneOn(T, numCyclesBack) ==
    numCyclesBack <= WindowOf(T) /\ numCyclesBack <= 1

wasEverRaisesOn(T, s, numCyclesBack) ==
    \/ numCyclesBack > WindowOf(T)
    \/ \E i \in 1..(numCyclesBack - 1) : pastRaisesOn(T, s, i)

valueAtRaisesOn(T, s, cycleNum) ==
    \/ cycleNum > WindowOf(T)
    \/ regInfoForRaises(T, s)
    \/ IndexError(cycleNum, WindowOf(T))

sequenceRaisesOn(T, s, startCycle, numCycles) ==
    startCycle + numCycles > WindowOf(T) \/ regInfoForRaises(T, s)

\* range(startCycle, numCycles), numCycles clamped to the window first
isEverPositionsOn(T, startCycle, numCycles) ==
    LET n == IF startCycle + numCycles > WindowOf(T)
             THEN WindowOf(T) - startCycle ELSE numCycles
    IN  {i \in 0..(WindowOf(T) - 1) : startCycle <= i /\ i < n}

isEverIsNoneOn(T, startCycle, numCycles) ==
    isEverPositionsOn(T, startCycle, numCycles) = {}

isEverRaisesOn(T, s, startCycle, numCycles) ==
    \E i \in isEverPositionsOn(T, startCycle, numCycles) :
        valueAtRaisesOn(T, s, i)

followsSequenceRaisesOn(T, s, values, startCycle, numCycles) ==
    LET n == IF numCycles = 0 THEN Len(values) ELSE numCycles
    IN  \/ startCycle >= startCycle + n
        \/ startCycle + n > WindowOf(T)
        \/ n > Len(values)
        \/ \E i \in startCycle..(startCycle + n - 1) :
               valueAtRaisesOn(T, s, i)

\* pastRose, pastFell, roseWithin, fellWithin: the look-up comes first
riseFallPastEventsRaisesOn(T, s, stepsAgo, includeStepsBack) ==
    \/ regInfoForRaises(T, s)
    \/ stepsAgo < 1
    \/ stepsAgo + includeStepsBack > WindowOf(T)

\* roseOnCycle, fellOnCycle: the look-up comes first
onCycleRaisesOn(T, s, atCycle) ==
    regInfoForRaises(T, s) \/ atCycle >= WindowOf(T)

\* rose(s) and fell(s) of the current cycle read past(s, 1)
edgeNowRaisesOn(T, s) == pastRaisesOn(T, s, 1)

RegistryNext ==
    \/ \E n \in 1..MaxWindow : NewHistory(n)
    \/ \E T \in 1..Len(trackers) : \E s \in Signals : Track(T, s)

SpecRegistry == ProcessInit /\ [][RegistryNext]_vars

ProcessNext ==
    \/ \E n \in 1..MaxWindow : NewHistory(n)
    \/ \E T \in 1..Len(trackers) : ElaborateHistory(T)
    \/ \E T \in 1..Len(trackers) : ClockHistory(T)

SpecProcess == ProcessInit /\ [][ProcessNext]_vars

\* ------------------------------------------------------------- one design
\* The Histories constructed so far are submodules of one design: the
\* design is elaborated once, all of them with it, and one clock drives
\* them. A History constructed afterwards belongs to a later design.

ElaborateDesign ==
    /\ Len(trackers) >= 1
    /\ \A T \in 1..Len(trackers) : ~trackers[T].elaborated
    /\ trackers' = [T \in 1..Len(trackers) |-> Elaborating(trackers[T])]
    /\ UNCHANGED <<classState, registry, tracker>>
    /\ UNCHANGED dut

\* an active clock edge of the design: every m.d.sync assignment of every
\* submodule commits
ClockDesign ==
    /\ \E T \in 1..Len(trackers) : trackers[T].elaborated
    /\ Now < MaxCycles
    /\ trackers' = [T \in 1..Len(trackers) |->
                       IF trackers[T].elaborated THEN Counting(trackers[T])
                       ELSE trackers[T]]
    /\ held' = Append(held, sig)
    /\ UNCHANGED <<config, flags, elaborated, sig, registers>>
    /\ UNCHANGED <<classState, registry>>
    /\ UNCHANGED dut

DesignNext ==
    \/ \E n \in 1..MaxWindow : NewHistory(n)
    \/ ElaborateDesign
    \/ ClockDesign

SpecDesign == ProcessInit /\ [][DesignNext]_vars

\* ---------------------------------------------------- verification.py

signalTrue(s) == bool(s)

signalFalse(s) == ~bool(s)

\* "SIG is TRUE & ALLOTHER are FALSE" for the i-th signal of the list
oneHotStatement(signalsList, i) ==
    /\ signalTrue(signalsList[i])
    /\ \A j \in 1..Len(signalsList) : j # i => signalFalse(signalsList[j])

\* signalFalse of the first signal, joined with | to signalFalse of every
\* other one when allowAllFalse
allZeroStatement(signalsList, allowAllFalse) ==
    IF allowAllFalse
    THEN \E i \in 1..Len(signalsList) : signalFalse(signalsList[i])
    ELSE signalFalse(signalsList[1])

oneHotPossibs(signalsList) ==
    \E i \in 1..Len(signalsList) : oneHotStatement(signalsList, i)

oneHotRaises(signalsList) == Len(signalsList) = 0

\* the value of the statement oneHot builds for a list of two signals or
\* more, the signals holding the values of the list
oneHot(signalsList, allowAllFalse) ==
    IF allowAllFalse
    THEN allZeroStatement(signalsList, allowAllFalse)
            \/ oneHotPossibs(signalsList)
    ELSE oneHotPossibs(signalsList)

\* lists of two signals or more, each of up to MaxWidth bits
SignalLists ==
    UNION {[1..n -> 0..(2^MaxWidth - 1)] : n \in 2..MaxSignals}

OneHotInit ==
    /\ FreshProcess
    /\ \E signalsList \in SignalLists : \E allowAllFalse \in BOOLEAN :
         dut = [design |-> "oneHot",
                signalsList |-> signalsList,
                allowAllFalse |-> allowAllFalse,
                statement |-> {}]

\* the test bench calls oneHot and reads the statement
BuildOneHot ==
    /\ dut.statement = {}
    /\ ~oneHotRaises(dut.signalsList)
    /\ dut' = [dut EXCEPT
                 !.statement = {oneHot(dut.signalsList, dut.allowAllFalse)}]
    /\ UNCHANGED <<tracker, process>>

OneHotNext == BuildOneHot

SpecOneHot == OneHotInit /\ [][OneHotNext]_vars

\* ------------------------------------------- designs under observation
\* A design of examples/ with a History tracking some of its signals, as
\* its test bench sets it up: the queries are built before elaboration, so
\* the past accumulator of every tracked signal is in use. The record d
\* holds the design's signals by name, the tracker's window, counter and
\* started flag, and past[s] and widths[s] for every tracked signal s.

\* regInfo.past.eq((regInfo.past << regInfo.width) | sig) for a signal of
\* w bits in a window of n cycles
PastShiftOf(p, s, w, n) == (p % (2^(w * (n - 1)))) * (2^w) + s

\* the tracker's registers after an active clock edge
Observing(d) ==
    [d EXCEPT
       !.cycle = IF d.started
                 THEN Truncate(d.cycle + 1, bits_for(d.window))
                 ELSE 1,
       !.started = TRUE,
       !.past = [s \in DOMAIN d.past |->
                   IF d.cycle \in 0..(d.window - 1)
                   THEN PastShiftOf(d.past[s], d[s], d.widths[s], d.window)
                   ELSE IF ~d.started THEN 0
                   ELSE d.past[s]]]

\* tracker.past(s, stepsAgo)
pastOf(d, s, stepsAgo) ==
    Slice(d.past[s], (stepsAgo - 1) * d.widths[s], stepsAgo * d.widths[s],
          d.widths[s] * d.window)

\* tracker.rose(s)
roseOf(d, s) == d.started /\ ~bool(pastOf(d, s, 1)) /\ bool(d[s])

\* the tracker of a design at reset
Observer(n, widths) ==
    [window |-> n,
     cycle |-> 0,
     started |-> FALSE,
     widths |-> widths,
     past |-> [s \in DOMAIN widths |-> 0]]

\* ---- examples/combo_lock.py

KEY1 == 66
KEY2 == 105

\* inputs the test bench drives: the keys, nothing, and a wrong number
ComboLockInputs == {0, KEY1, KEY2, 222}

\* window of the History of test_combo_lock.py, smaller than its 30: the
\* least one the bench's queries fit in, its 8-bit samples packed in 24 bits
ComboLockWindows == {3}

ComboLockInit ==
    /\ FreshProcess
    /\ \E n \in ComboLockWindows : \E input \in ComboLockInputs :
         dut = [design |-> "ComboLock",
                input |-> input,
                opened |-> 0,
                first_num_ok |-> 0]
               @@ Observer(n, [input |-> 8, opened |-> 1])

\* mutant: the lock closing again on a wrong number
ComboLockRelocking(d) ==
    IF d.opened = 0
    THEN IF d.first_num_ok = 1
         THEN IF d.input = KEY2 THEN [d EXCEPT !.opened = 1]
              ELSE IF d.input # KEY1 THEN [d EXCEPT !.first_num_ok = 0]
              ELSE d
         ELSE IF d.input = KEY1 THEN [d EXCEPT !.first_num_ok = 1]
              ELSE d
    ELSE IF d.input = 222 THEN [d EXCEPT !.opened = 0] ELSE d

\* mutant: the first number forgotten only on nothing
ComboLockLenient(d) ==
    IF d.opened = 0
    THEN IF d.first_num_ok = 1
         THEN IF d.input = KEY2 THEN [d EXCEPT !.opened = 1]
              ELSE IF d.input = 0 THEN [d EXCEPT !.first_num_ok = 0]
              ELSE d
         ELSE IF d.input = KEY1 THEN [d EXCEPT !.first_num_ok = 1]
              ELSE d
    ELSE d

\* ComboLock.elaborate: the registers after an active clock edge
ComboLock(d) ==
    IF d.opened = 0
    THEN IF d.first_num_ok = 1
         THEN IF d.input = KEY2 THEN [d EXCEPT !.opened = 1]
              ELSE IF d.input # KEY1 THEN [d EXCEPT !.first_num_ok = 0]
              ELSE d
         ELSE IF d.input = KEY1 THEN [d EXCEPT !.first_num_ok = 1]
              ELSE d
    ELSE d

\* an active clock edge, the test bench driving the next input
ClockComboLock ==
    /\ Now < MaxCycles
    /\ \E input \in ComboLockInputs :
         dut' = [ComboLock(Observing(dut)) EXCEPT !.input = input]
    /\ held' = Append(held, dut.input)
    /\ UNCHANGED <<config, flags, elaborated, sig, registers, process>>

ComboLockNext == ClockComboLock

SpecComboLock == ComboLockInit /\ [][ComboLockNext]_vars

\* ---- examples/ferryman.py

\* the shores of ferryman, wolf, goat and cabbage the test bench can drive
Shores == [{"ferryman", "wolf", "goat", "cabbage"} -> {0, 1}]

\* the inputs of d set to the shores in
Ferried(d, in) ==
    [d EXCEPT !.ferryman = in["ferryman"], !.wolf = in["wolf"],
              !.goat = in["goat"], !.cabbage = in["cabbage"]]

\* windows of the History of test_ferryman.py, smaller than its 25: one
\* that the run overruns at once, one that it overruns later
FerryManWindows == {1, 2}

\* the History of test_ferryman.py; of the ports it tracks, those its
\* queries read. nearShoreStart remembers whether the run began with
\* everyone on the near shore.
FerryManInit ==
    /\ FreshProcess
    /\ \E n \in FerryManWindows : \E in \in Shores :
         dut = Ferried(
                 [design |-> "FerryManProblem",
                  nearShoreStart |-> \A who \in DOMAIN in : in[who] = 0,
                  ferryman |-> 0, wolf |-> 0, goat |-> 0, cabbage |-> 0,
                  failure |-> 0,
                  lastFerryman |-> 0, lastWolf |-> 0, lastGoat |-> 0,
                  lastCabbage |-> 0]
                 @@ Observer(n, [who \in DOMAIN in |-> 1]),
                 in)

\* the conditions under which elaborate calls fail()
wolfWithGoat(d) == d.wolf = d.goat /\ d.ferryman # d.wolf

goatWithCabbage(d) == d.goat = d.cabbage /\ d.ferryman # d.goat

changedWolf(d) == d.lastWolf # d.wolf

changedGoat(d) == d.lastGoat # d.goat

changedCabbage(d) == d.lastCabbage # d.cabbage

multimove(d) ==
    \/ changedWolf(d) /\ changedGoat(d)
    \/ changedWolf(d) /\ changedCabbage(d)
    \/ changedGoat(d) /\ changedCabbage(d)

movedAlone(d) ==
    \/ changedWolf(d)
          /\ (d.lastWolf # d.lastFerryman \/ d.wolf # d.ferryman)
    \/ changedGoat(d)
          /\ (d.lastGoat # d.lastFerryman \/ d.goat # d.ferryman)
    \/ changedCabbage(d)
          /\ (d.lastCabbage # d.lastFerryman \/ d.cabbage # d.ferryman)

\* mutant: the goat and the cabbage left unwatched
failsButForCabbage(d) ==
    wolfWithGoat(d) \/ multimove(d) \/ movedAlone(d)

fails(d) ==
    wolfWithGoat(d) \/ goatWithCabbage(d) \/ multimove(d) \/ movedAlone(d)

\* mutant: failure following the rules of the current cycle only
FerryManProblemForgiving(d) ==
    [d EXCEPT !.lastFerryman = d.ferryman, !.lastWolf = d.wolf,
              !.lastGoat = d.goat, !.lastCabbage = d.cabbage,
              !.failure = IF fails(d) THEN 1 ELSE 0]

\* FerryManProblem.elaborate: the registers after an active clock edge
FerryManProblem(d) ==
    [d EXCEPT !.lastFerryman = d.ferryman, !.lastWolf = d.wolf,
              !.lastGoat = d.goat, !.lastCabbage = d.cabbage,
              !.failure = IF fails(d) THEN 1 ELSE d.failure]

\* an active clock edge, the test bench driving the next shores
ClockFerryMan ==
    /\ Now < MaxCrossings
    /\ \E in \in Shores :
         dut' = Ferried(FerryManProblem(Observing(dut)), in)
    /\ held' = Append(held, 0)
    /\ UNCHANGED <<config, flags, elaborated, sig, registers, process>>

FerryManNext == ClockFerryMan

SpecFerryMan == FerryManInit /\ [][FerryManNext]_vars

\* ---- examples/counter.py

\* math.ceil(math.log2(maxValue))
CeilLog2(maxValue) ==
    CHOOSE b \in 0..maxValue :
        2^b >= maxValue /\ (b = 0 \/ 2^(b - 1) < maxValue)

\* the width of Signal(math.ceil(math.log2(maxValue)) + 1)
CountWidth(maxValue) == CeilLog2(maxValue) + 1

\* BasicCounter(maxValue) with the History of test_counter_basic.py, which
\* tracks count and the rst it wires to the reset of the sync domain
BasicCounterInit ==
    /\ FreshProcess
    /\ \E maxValue \in 1..(2^MaxWidth - 1) : \E n \in 1..MaxWindow :
         \E rst \in {0, 1} :
           dut = [design |-> "BasicCounter",
                  max |-> maxValue,
                  count |-> 0,
                  rst |-> rst]
                 @@ Observer(n, [count |-> CountWidth(maxValue), rst |-> 1])

\* mutant: the comparison taken as <=
BasicCounterPastMax(d) ==
    IF d.count <= d.max
    THEN [d EXCEPT !.count = Truncate(d.count + 1, d.widths["count"])]
    ELSE [d EXCEPT !.count = 0]

\* BasicCounter.elaborate: the register after an active clock edge
BasicCounter(d) ==
    IF d.count < d.max
    THEN [d EXCEPT !.count = Truncate(d.count + 1, d.widths["count"])]
    ELSE [d EXCEPT !.count = 0]

\* every register of the sync domain back at its reset value
Reset(d) ==
    Observer(d.window, d.widths) @@ [d EXCEPT !.count = 0]

\* an active clock edge, the test bench driving the next rst; held counts
\* the edges since the last reset
ClockBasicCounter ==
    /\ Len(held) < MaxCycles
    /\ \E rst \in {0, 1} :
         dut' = [(IF dut.rst = 1 THEN Reset(dut)
                  ELSE BasicCounter(Observing(dut)))
                 EXCEPT !.rst = rst]
    /\ held' = IF dut.rst = 1 THEN <<>> ELSE Append(held, dut.count)
    /\ UNCHANGED <<config, flags, elaborated, sig, registers, process>>

BasicCounterNext == ClockBasicCounter

SpecBasicCounter == BasicCounterInit /\ [][BasicCounterNext]_vars

\* ================================================================ claims

\* value the signal held during cycle c (c counted in clock edges since reset)
ValueDuring(c) == IF c = Now THEN sig ELSE held[c + 1]

\* the signal was zero during cycle c-1 and non-zero during cycle c
RoseAt(c) == c >= 1 /\ ValueDuring(c - 1) = 0 /\ ValueDuring(c) # 0

\* the signal was non-zero during cycle c-1 and zero during cycle c
FellAt(c) == c >= 1 /\ ValueDuring(c - 1) # 0 /\ ValueDuring(c) = 0

\* no more clock edges than the window holds have elapsed
InWindow == Now <= numCyclesToTrack

\* expected values a caller passes: the driven ones, the largest W-bit
\* value, and one that does not fit W bits
ExpectValues == Stimulus(width) \cup {2^width - 1, 2^width}

Representable == {v \in ExpectValues : v < 2^width}

\* the queries were built before elaborate() ran, so that the update logic
\* of the stores they read is part of the design (PastBuilt, EdgesBuilt)

\* list lengths pastSequenceWas accepts
SeqLens == {n \in 1..numCyclesToTrack : ~pastSequenceWasRaises(Repeated(0, n))}

PastBuilt == elaborated /\ usingPast

EdgesBuilt == elaborated /\ usingRiseFallPast

\* ---- C1
\* C1 as claimed: for every k in 1..N, at every cycle >= k, past(s, k) is
\* the value s held k cycles before the current one.
C1_PastAtEveryCycle ==
    \A k \in 1..numCyclesToTrack :
        (PastBuilt /\ ~pastRaises(k) /\ cycle >= k)
            => past(k) = ValueDuring(Now - k)

\* C1 amended: for every k in 1..N, whenever the cycle counter reads a
\* value in k..N, past(s, k) is the value s held k cycles before the
\* current one.
C1_PastWithinWindow ==
    \A k \in 1..numCyclesToTrack :
        (PastBuilt /\ ~pastRaises(k) /\ cycle >= k /\ cycle <= numCyclesToTrack)
            => past(k) = ValueDuring(Now - k)

C1_Witness ==
    /\ PastBuilt
    /\ width = 2
    /\ numCyclesToTrack >= 2
    /\ cycle = numCyclesToTrack
    /\ Now > numCyclesToTrack
    /\ past(numCyclesToTrack) = 2
    /\ past(1) = 1

\* ---- C2
C2_SequenceImpliesPast(V) ==
    \A n \in SeqLens : \A values \in [1..n -> V] :
        pastSequenceWas(values)
            => /\ cycle >= n
               /\ \A i \in 1..n : past(n - i + 1) = values[i]

C2_ConstantImpliesPast(V) ==
    \A n \in SeqLens : \A v \in V :
        /\ pastWasConstant(v, n) => \A k \in 1..n : past(k) = v
        /\ wasConstant(v, n) => \A k \in 1..n : past(k) = v

\* C2 as claimed: whenever pastSequenceWas(s, [v1..vn]) is true, cycle >= n
\* and past(s, n-i+1) = v_i for every i; pastWasConstant / wasConstant
\* (s, v, n) true implies past(s, k) = v for k in 1..n -- for any values.
C2_AnyValues ==
    C2_SequenceImpliesPast(ExpectValues) /\ C2_ConstantImpliesPast(ExpectValues)

\* C2 amended: the same, for expected values that fit the signal's W bits
\* (a larger value is compared modulo 2^W).
C2_RepresentableValues ==
    C2_SequenceImpliesPast(Representable) /\ C2_ConstantImpliesPast(Representable)

C2_Witness ==
    /\ PastBuilt
    /\ width = 2
    /\ numCyclesToTrack = 3
    /\ pastSequenceWas(<<1, 2>>)

\* ---- C3
\* C3 as claimed: for 1 <= n < N, at every cycle >= n at which
\* past(s, n-i+1) = v_i for all i in 1..n, pastSequenceWas(s, [v1..vn]) is
\* true.
C3_PastImpliesSequence ==
    \A n \in SeqLens : \A values \in [1..n -> Representable] :
        (PastBuilt /\ cycle >= n /\ \A i \in 1..n : past(n - i + 1) = values[i])
            => pastSequenceWas(values)

\* ---- C4
\* C4: rose(s) and fell(s) are never both true in the same cycle.
C4_RoseFellExclusive == ~(rose(0) /\ fell(0))

C4_Witness ==
    /\ PastBuilt /\ EdgesBuilt
    /\ width = 2
    /\ rose(0)
    /\ pastFell(1)

\* ---- C5
\* C5 as claimed: at every cycle c, rose(s) is true iff c >= 1, s was zero
\* at cycle c-1 and s is non-zero at cycle c.
C5_RoseAtEveryCycle ==
    PastBuilt => (rose(0) <=> RoseAt(Now))

\* C5 amended: the same at every cycle c <= N.
C5_RoseWithinWindow ==
    (PastBuilt /\ InWindow) => (rose(0) <=> RoseAt(Now))

C5_Witness ==
    /\ PastBuilt /\ InWindow
    /\ width = 2
    /\ Now >= 2
    /\ sig = 2
    /\ rose(0)

\* ---- C6
\* C6 as claimed: at every cycle c, fell(s) is true iff c >= 1, s was
\* non-zero at cycle c-1 and s is zero at cycle c (never at cycle 0).
C6_FellAtEveryCycle ==
    PastBuilt => (fell(0) <=> FellAt(Now))

\* C6 amended: the same at every cycle c <= N.
C6_FellWithinWindow ==
    (PastBuilt /\ InWindow) => (fell(0) <=> FellAt(Now))

C6_Witness ==
    /\ PastBuilt /\ InWindow
    /\ width = 2
    /\ Now >= 2
    /\ ValueDuring(Now - 1) = 2
    /\ fell(0)

\* ---- C7
C7_PastEdges ==
    \A k \in 1..numCyclesToTrack :
        /\ pastRose(k) <=> (Now >= k /\ RoseAt(Now - k))
        /\ pastFell(k) <=> (Now >= k /\ FellAt(Now - k))
        /\ rose(k) = pastRose(k)
        /\ fell(k) = pastFell(k)

\* C7 as claimed: for every k in 1..N and every cycle c, pastRose(s, k) is
\* what rose(s) was at cycle c-k when c >= k and false when c < k; the same
\* for pastFell and fell; rose(s, k) / fell(s, k) are these expressions.
C7_PastEdgesAtEveryCycle == EdgesBuilt => C7_PastEdges

\* C7 amended: the same at every cycle c <= N.
C7_PastEdgesWithinWindow == (EdgesBuilt /\ InWindow) => C7_PastEdges

C7_Witness ==
    /\ EdgesBuilt /\ InWindow
    /\ width = 2
    /\ Now = 3
    /\ pastRose(2)
    /\ pastFell(1)

\* ---- C8
C8_Within(last) ==
    \A n \in 1..numCyclesToTrack :
        /\ roseWithin(n) <=> \E j \in 0..last[n] : j <= Now /\ RoseAt(Now - j)
        /\ fellWithin(n) <=> \E j \in 0..last[n] : j <= Now /\ FellAt(Now - j)

\* C8 as claimed: roseWithin(s, n) is true at cycle c iff s rose at one of
\* the n cycles c, c-1, ..., c-(n-1); fellWithin likewise.
C8_WithinNCycles ==
    (PastBuilt /\ EdgesBuilt)
        => C8_Within([n \in 1..numCyclesToTrack |-> n - 1])

\* C8 amended: at every cycle c <= N, roseWithin(s, n) is true iff s rose
\* at one of the n+1 cycles c, c-1, ..., c-n (now plus the n preceding
\* cycles); fellWithin likewise.
C8_WithinNPlusOneCycles ==
    (PastBuilt /\ EdgesBuilt /\ InWindow)
        => C8_Within([n \in 1..numCyclesToTrack |-> n])

C8_Witness ==
    /\ PastBuilt /\ EdgesBuilt /\ InWindow
    /\ width = 2
    /\ RoseAt(Now - 2)
    /\ roseWithin(2)
    /\ ~roseWithin(1)

\* ---- C9
C9_OnCycle(t) ==
    /\ roseOnCycle(t) <=> RoseAt(t)
    /\ fellOnCycle(t) <=> FellAt(t)

\* the cycle counter has not come back to position t after wrapping
BeforeRevisit(t) == Now <= 2^CycleWidth + t

\* C9 as claimed: for every t in 0..N-1, at every cycle after t,
\* roseOnCycle(s, t) is true iff s was zero at cycle t-1 and non-zero at
\* cycle t; fellOnCycle mirrors it.
C9_OnCycleForEver ==
    \A t \in 0..(numCyclesToTrack - 1) :
        (EdgesBuilt /\ ~roseOnCycleRaises(t) /\ Now > t) => C9_OnCycle(t)

\* C9 amended: the same at every cycle after t up to the one at which the
\* cycle counter, having wrapped at 2^bits_for(N), passes position t again.
C9_OnCycleUntilRevisit ==
    \A t \in 0..(numCyclesToTrack - 1) :
        (EdgesBuilt /\ ~roseOnCycleRaises(t) /\ Now > t /\ BeforeRevisit(t))
            => C9_OnCycle(t)

C9_Witness ==
    /\ EdgesBuilt
    /\ width = 2
    /\ numCyclesToTrack = 3
    /\ Now > numCyclesToTrack
    /\ roseOnCycle(1)
    /\ fellOnCycle(2)

\* ---- C10
\* C10 as claimed: for start >= 0 and n >= 1 with start + n <= N,
\* isConstant(s, v, start, n) true implies isEver(s, v, start, n) is true
\* and isNever(s, v, start, n) is false.
C10_ConstantImpliesEver ==
    \A v \in Stimulus(width) :
      \A start \in 0..(numCyclesToTrack - 1) :
        \A n \in 1..(numCyclesToTrack - start) :
            (elaborated /\ ~isConstantRaises(start, n) /\ isConstant(v, start, n))
                => /\ ~isEverIsNone(start, n)
                   /\ isEver(v, start, n)
                   /\ ~isNeverRaises(start, n)
                   /\ ~isNever(v, start, n)

\* ---- C11
\* C11 as claimed: for start >= 0 and count >= 1 with start + count <= N,
\* isEver(s, value, start, count) is the OR of valueAt(s, i) = value over
\* exactly the positions start..start+count-1, and isNever is its negation.
C11_EverOverExactRange ==
    \A v \in Stimulus(width) :
      \A start \in 0..(numCyclesToTrack - 1) :
        \A n \in 1..(numCyclesToTrack - start) :
            elaborated
                => /\ ~isEverIsNone(start, n)
                   /\ isEver(v, start, n)
                        <=> \E i \in start..(start + n - 1) : valueAt(i) = v
                   /\ ~isNeverRaises(start, n)
                   /\ isNever(v, start, n) <=> ~isEver(v, start, n)

\* ---- C12
\* values a caller lists: zero, the driven value with the top bit set, and
\* one that does not fit W bits
ListedValues == {0, 2^(width - 1), 2^width}

\* s held values[i+1] during cycle start+i for every i in 0..n-1
HeldThem(values, start, n) ==
    \A i \in 0..(n - 1) : ValueDuring(start + i) = values[i + 1]

\* followsSequence(s, values, start, n) agrees with what s held
C12_Agrees(values, start, n) ==
    /\ ~followsSequenceRaises(values, start, n)
    /\ followsSequence(values, start, n) <=> HeldThem(values, start, n)

\* isConstant(s, v, start, n) agrees with what s held
C12_ConstantAgrees(v, start, n) ==
    /\ ~isConstantRaises(start, n)
    /\ isConstant(v, start, n) <=> HeldThem(Repeated(v, n), start, n)

\* every position start..start+n-1 has been recorded
Reached(start, n) == elaborated /\ Now >= start + n

C12_AgreesOn(start, n) ==
    /\ \A values \in [1..n -> ListedValues] : C12_Agrees(values, start, n)
    /\ \A v \in ExpectValues : C12_ConstantAgrees(v, start, n)

\* C12 as claimed: once all positions start..start+n-1 have been reached,
\* followsSequence(s, values, start, n) is true if and only if s held
\* values[i] during cycle start+i for every i in 0..n-1, and isConstant
\* likewise with every values[i] = v.
C12_FollowsIffHeldForEver ==
    \A start \in 0..(numCyclesToTrack - 1) :
      \A n \in 1..(numCyclesToTrack - start) :
          Reached(start, n) => C12_AgreesOn(start, n)

\* C12 amended: the same from the cycle at which position start+n-1 has
\* been recorded up to the one at which the cycle counter, having wrapped
\* at 2^bits_for(N), records position start again.
C12_FollowsIffHeldUntilRevisit ==
    \A start \in 0..(numCyclesToTrack - 1) :
      \A n \in 1..(numCyclesToTrack - start) :
          (Reached(start, n) /\ BeforeRevisit(start))
              => C12_AgreesOn(start, n)

C12_Witness ==
    /\ width = 2
    /\ numCyclesToTrack = 3
    /\ Reached(1, 2)
    /\ Now > numCyclesToTrack
    /\ BeforeRevisit(1)
    /\ followsSequence(<<0, 2>>, 1, 2)
    /\ followsSequence(<<0, 2>>, 1, 0)
    /\ isConstant(2, 2, 1)
    /\ ~isConstant(1, 1, 2)

\* ---- C13
\* a step keeps followsSequence(s, values, start, n) true, and isConstant
\* (s, v, start, n) true
C13_Kept(start, n) ==
    /\ \A values \in [1..n -> ListedValues] :
         followsSequence(values, start, n)
             => followsSequence(values, start, n)'
    /\ \A v \in ExpectValues :
         isConstant(v, start, n) => isConstant(v, start, n)'

\* C13 as claimed: if followsSequence(s, values, start, n) (or isConstant)
\* is true at some cycle, it is true at every later cycle.
C13_OnceTrueForEver ==
    [][\A start \in 0..(numCyclesToTrack - 1) :
         \A n \in 1..(numCyclesToTrack - start) :
             elaborated => C13_Kept(start, n)]_vars

\* C13 amended: if followsSequence(s, values, start, n) (or isConstant) is
\* true at a cycle at which all positions start..start+n-1 have been
\* recorded, it is true at every later cycle up to the one at which the
\* cycle counter, having wrapped at 2^bits_for(N), records position start
\* again.
C13_OnceTrueUntilRevisit ==
    [][\A start \in 0..(numCyclesToTrack - 1) :
         \A n \in 1..(numCyclesToTrack - start) :
             (Reached(start, n) /\ BeforeRevisit(start)')
                 => C13_Kept(start, n)]_vars

C13_Witness ==
    /\ width = 2
    /\ numCyclesToTrack = 3
    /\ Now = 2^CycleWidth + 1
    /\ cycle = 1
    /\ followsSequence(<<2, 0>>, 1, 2)
    /\ isConstant(1, 0, 1)
    /\ sig # 2

\* ---- C14
\* C14 as claimed: wasEver(s, value, window) is true at cycle c only if s
\* equalled value at some cycle c-i with 1 <= i < window and i <= c, and
\* isEver(s, value, start, count) is true at cycle c only if s equalled
\* value at some already recorded position of start..start+count-1.
C14_OnlyRecordedMatches ==
    \A v \in ExpectValues :
        /\ \A window \in 2..numCyclesToTrack :
             (PastBuilt /\ InWindow /\ ~wasEverRaises(window)
                /\ ~wasEverIsNone(window) /\ wasEver(v, window))
                 => \E i \in 1..(window - 1) :
                        i <= Now /\ ValueDuring(Now - i) = v
        /\ \A start \in 0..(numCyclesToTrack - 1) :
             \A n \in 1..(numCyclesToTrack - start) :
               (elaborated /\ InWindow /\ ~isEverIsNone(start, n)
                  /\ isEver(v, start, n))
                   => \E i \in start..(start + n - 1) :
                          i < Now /\ ValueDuring(i) = v

\* ---- C15
\* step counts a caller may pass, from below 1 to beyond the window
StepsTried == (0 - 1)..(numCyclesToTrack + 2)

\* bits lo..lo+W-1 of the accumulator
AccumulatorBits(lo) == (past_reg \div (2^lo)) % (2^width)

\* C15: past(s, k), and with it pastTrue / pastFalse, fails at build time
\* exactly when k < 1 or k > N; for every k in 1..N it returns the W-bit
\* slice of the accumulator at bit offset (k-1)*W.
C15_PastBoundsAndSlice ==
    \A k \in StepsTried :
        /\ pastRaises(k) <=> (k < 1 \/ k > numCyclesToTrack)
        /\ k \in 1..numCyclesToTrack
             => /\ past(k) = AccumulatorBits((k - 1) * width)
                /\ pastTrue(k) <=> AccumulatorBits((k - 1) * width) # 0
                /\ pastFalse(k) <=> AccumulatorBits((k - 1) * width) = 0

C15_Witness ==
    /\ PastBuilt
    /\ width = 2
    /\ numCyclesToTrack = 3
    /\ Now = 3
    /\ past(3) = 1 /\ past(2) = 0 /\ past(1) = 2
    /\ pastTrue(3) /\ pastFalse(2)
    /\ pastRaises(0) /\ pastRaises(4) /\ ~pastRaises(3)

\* ---- C16
\* absolute positions from the window's end onwards
BeyondWindow == numCyclesToTrack..(numCyclesToTrack + 2)

C16_AbsoluteFails ==
    \A t \in BeyondWindow :
        /\ valueAtRaises(t)
        /\ cyclePassedRaises(t)
        /\ roseOnCycleRaises(t)
        /\ fellOnCycleRaises(t)

C16_RelativeFails(k) ==
    pastRaises(k) /\ pastRoseRaises(k) /\ pastFellRaises(k)

\* C16 as claimed: every query that addresses an absolute position t >= N
\* (valueAt, roseOnCycle, fellOnCycle, cyclePassed) or a relative offset
\* k >= N or k < 1 (past, pastRose, pastFell) fails during construction.
C16_FailsFromN ==
    /\ C16_AbsoluteFails
    /\ \A k \in StepsTried :
         (k >= numCyclesToTrack \/ k < 1) => C16_RelativeFails(k)

\* C16 amended: every query that addresses an absolute position t >= N or
\* a relative offset k > N or k < 1 fails during construction; the relative
\* offset k = N is accepted by past, pastRose and pastFell.
C16_FailsBeyondN ==
    /\ C16_AbsoluteFails
    /\ \A k \in StepsTried :
         (k > numCyclesToTrack \/ k < 1) => C16_RelativeFails(k)
    /\ ~pastRaises(numCyclesToTrack)
    /\ ~pastRoseRaises(numCyclesToTrack)
    /\ ~pastFellRaises(numCyclesToTrack)

C16_Witness ==
    /\ ~elaborated
    /\ usingPast /\ usingRiseFallPast
    /\ numCyclesToTrack = 2
    /\ valueAtRaises(2) /\ ~valueAtRaises(1)
    /\ cyclePassedRaises(2) /\ ~cyclePassedRaises(1)
    /\ roseOnCycleRaises(2) /\ ~roseOnCycleRaises(1)
    /\ pastRoseRaises(3) /\ ~pastRoseRaises(2)
    /\ pastFellRaises(0) /\ ~pastFellRaises(1)

\* ---- C17
\* C17 as claimed: an empty expected-value sequence is a build-time error
\* for every sequence query: pastSequenceWas(s, []), followsSequence(s, []),
\* and wasConstant / pastWasConstant / isConstant with a count of 0 all
\* fail and never return a result, or an absent result, to the caller.
C17_EmptySequenceFails ==
    /\ pastSequenceWasRaises(<<>>) /\ ~pastSequenceWasIsNone(<<>>)
    /\ wasConstantRaises(0) /\ ~wasConstantIsNone(0)
    /\ pastWasConstantRaises(0) /\ ~pastWasConstantIsNone(0)
    /\ \A start \in 0..(numCyclesToTrack - 1) :
         /\ followsSequenceRaises(<<>>, start, 0)
         /\ isConstantRaises(start, 0)

\* ---- C18
\* counts and windows larger than the tracker holds
OverCapacity == (numCyclesToTrack + 1)..(numCyclesToTrack + 2)

\* C18 as claimed: a window / start / count that exceeds the capacity N is
\* rejected at build time by every query that takes one (wasEver with
\* numCyclesBack > N; isEver, sequence, isConstant, followsSequence with
\* start + count > N; pastSequenceWas, roseWithin, fellWithin reaching back
\* more than N steps), never clamped.
C18_OverCapacityRejected ==
    /\ \A n \in OverCapacity :
         /\ wasEverRaises(n)
         /\ pastSequenceWasRaises(Repeated(0, n))
         /\ roseWithinRaises(n)
         /\ fellWithinRaises(n)
    /\ \A start \in 0..numCyclesToTrack :
         \A n \in 1..(numCyclesToTrack + 2) :
           start + n > numCyclesToTrack
             => /\ sequenceRaises(start, n)
                /\ isConstantRaises(start, n)
                /\ followsSequenceRaises(Repeated(0, n), start, n)
                /\ isEverRaises(start, n)
                /\ isEverCount(start, n) = n

\* ---- C19
\* the Signal s has been passed to trackers[T].track()
RegisteredWith(T, s) ==
    \E i \in 1..Len(trackers[T].registers) : trackers[T].registers[i] = s

\* lists of expected values of up to two entries
ShortLists == {<<>>, <<0>>, <<0, 1>>}

\* every query builder of trackers[T] raises when called with s
C19_EveryBuilderRaises(T, s) ==
    /\ \A k \in 0..(WindowOf(T) + 1) :
         /\ pastRaisesOn(T, s, k)
         /\ pastSequenceRaisesOn(T, s, k)
         /\ riseFallPastEventsRaisesOn(T, s, k, 0)
         /\ riseFallPastEventsRaisesOn(T, s, 1, k - 1)
         /\ valueAtRaisesOn(T, s, k)
         /\ onCycleRaisesOn(T, s, k)
         /\ wasEverRaisesOn(T, s, k) /\ ~wasEverIsNoneOn(T, k)
    /\ edgeNowRaisesOn(T, s)
    /\ \A values \in ShortLists :
         /\ pastSequenceWasRaisesOn(T, s, values)
         /\ ~pastSequenceWasIsNone(values)
         /\ \A start \in 0..WindowOf(T) :
              followsSequenceRaisesOn(T, s, values, start, 0)
    /\ \A start \in 0..WindowOf(T) :
         \A n \in 0..(WindowOf(T) + 1) :
           /\ sequenceRaisesOn(T, s, start, n)
           /\ isEverRaisesOn(T, s, start, n) /\ ~isEverIsNoneOn(T, start, n)

\* C19 as claimed: every query builder called on tracker T with a signal
\* that was never registered with T fails at build time, whether the
\* signal is registered with no tracker or only with a different one.
C19_UnregisteredSignalFails ==
    \A T \in 1..Len(trackers) :
        \A s \in Signals :
            ~RegisteredWith(T, s) => C19_EveryBuilderRaises(T, s)

\* ---- C20
\* windows of the first k trackers constructed
Windows(k) == {trackers[j].numCyclesToTrack : j \in 1..k}

Smallest(S) == CHOOSE m \in S : \A x \in S : m <= x

Largest(S) == CHOOSE m \in S : \A x \in S : m >= x

\* the state of trackers[T] satisfies the assumption its elaborate() emitted
Admitted(T) == \A bound \in trackers[T].assumed : trackers[T].cycle < bound

\* MinCapacity and MaxCapacity are the smallest and the largest window
\* constructed, and every elaborated tracker has emitted an assumption that
\* bounds its counter by the smallest window of the first Among(T) trackers
C20_BoundedBy(Among(_)) ==
    Len(trackers) >= 1 =>
        /\ MinCapacity = Smallest(Windows(Len(trackers)))
        /\ MaxCapacity = Largest(Windows(Len(trackers)))
        /\ \A T \in 1..Len(trackers) :
             trackers[T].elaborated =>
                 /\ trackers[T].assumed = {Smallest(Windows(Among(T)))}
                 /\ Admitted(T)
                      => trackers[T].cycle < Smallest(Windows(Among(T)))

AllConstructed(T) == Len(trackers)

ConstructedAtElaboration(T) == trackers[T].elaboratedAmong

\* C20 as claimed: for any set of trackers created in one process, the
\* assumption each tracker emits bounds its cycle counter strictly below the
\* smallest window of all of them (MinCapacity the smallest and MaxCapacity
\* the largest numCyclesToTrack constructed).
C20_BelowSmallestOfAll == C20_BoundedBy(AllConstructed)

\* C20 amended: the assumption a tracker emits bounds its cycle counter
\* strictly below the smallest window of the trackers constructed before
\* its elaborate() ran; trackers constructed later do not tighten it.
C20_BelowSmallestAtElaboration == C20_BoundedBy(ConstructedAtElaboration)

C20_Witness ==
    /\ Len(trackers) = 2
    /\ trackers[1].numCyclesToTrack = 3
    /\ trackers[2].numCyclesToTrack = 2
    /\ trackers[1].elaborated /\ trackers[1].elaboratedAmong = 2
    /\ trackers[2].elaborated
    /\ trackers[1].assumed = {2}
    /\ trackers[1].cycle = 2
    /\ ~Admitted(1)
    /\ trackers[2].cycle = 1
    /\ Admitted(2)

\* ---- C21
\* x(0..4) of scenario A
ScenarioA == <<0, 1, 0, 1, 1>>

\* the signal has been driven as the scenario says, as far as the run goes
AsDriven(scenario) ==
    \A c \in 0..Now : c < Len(scenario) => ValueDuring(c) = scenario[c + 1]

C21_Edges ==
    /\ Now = 1 => rose(0)
    /\ Now = 3 => rose(0)
    /\ Now = 2 => fell(0)

\* C21 as claimed: x driven 0,1,0,1,1 in a tracker of window 5: rose(x) is
\* true at cycles 1 and 3, fell(x) at cycle 2, and at cycle 4 past(x,1) = 1,
\* past(x,2) = 1, past(x,3) = 0, past(x,4) = 1.
C21_PastAtCycleFour ==
    (PastBuilt /\ AsDriven(ScenarioA))
        => /\ C21_Edges
           /\ Now = 4 => /\ past(1) = 1 /\ past(2) = 1
                         /\ past(3) = 0 /\ past(4) = 1

\* C21 amended: rose(x) is true at cycles 1 and 3, fell(x) at cycle 2; at
\* cycle 4 past(x,1) = 1, past(x,2) = 0, past(x,3) = 1, past(x,4) = 0, and
\* the values 1, 1, 0, 1 are read one cycle later, at cycle 5.
C21_PastAtCycleFive ==
    (PastBuilt /\ AsDriven(ScenarioA))
        => /\ C21_Edges
           /\ Now = 4 => /\ past(1) = 1 /\ past(2) = 0
                         /\ past(3) = 1 /\ past(4) = 0
           /\ Now = 5 => /\ past(1) = 1 /\ past(2) = 1
                         /\ past(3) = 0 /\ past(4) = 1

C21_Witness ==
    /\ PastBuilt
    /\ numCyclesToTrack = 5
    /\ held = ScenarioA
    /\ cycle = 5
    /\ past(1) = 1 /\ past(2) = 1 /\ past(3) = 0 /\ past(4) = 1

\* ---- C22
\* y(0..5) of scenario B
ScenarioB == <<3, 5, 5, 5, 2, 9>>

C22_Built ==
    /\ ~isConstantRaises(1, 3)
    /\ ~isEverRaises(0, 6) /\ ~isEverIsNone(0, 6)
    /\ ~isNeverRaises(0, 6)

\* C22 as claimed: y driven 3,5,5,5,2,9 in a tracker of window 6:
\* isConstant(y,5,start=1,count=3) is true at every cycle >= 3,
\* isEver(y,9,0,6) becomes true and isNever(y,7,0,6) is true.
C22_ConstantFromCycleThree ==
    (elaborated /\ AsDriven(ScenarioB))
        => /\ C22_Built
           /\ (Now >= 3 /\ BeforeRevisit(1)) => isConstant(5, 1, 3)
           /\ (Now >= 6 /\ BeforeRevisit(5)) => isEver(9, 0, 6)
           /\ BeforeRevisit(0) => isNever(7, 0, 6)

\* C22 amended: isConstant(y,5,start=1,count=3) is false up to cycle 3 and
\* true from cycle 4, when position 3 has been recorded, until the wrapped
\* counter records position 1 again; isEver(y,9,0,6) is false up to cycle
\* 5 and true from cycle 6 until position 5 is recorded again;
\* isNever(y,7,0,6) is true until position 0 is recorded again.
C22_ConstantFromCycleFour ==
    (elaborated /\ AsDriven(ScenarioB))
        => /\ C22_Built
           /\ BeforeRevisit(1) => (isConstant(5, 1, 3) <=> Now >= 4)
           /\ BeforeRevisit(5) => (isEver(9, 0, 6) <=> Now >= 6)
           /\ BeforeRevisit(0) => isNever(7, 0, 6)

C22_Witness ==
    /\ elaborated
    /\ numCyclesToTrack = 6
    /\ held = ScenarioB
    /\ sig = 7
    /\ isConstant(5, 1, 3)
    /\ isEver(9, 0, 6)
    /\ isNever(7, 0, 6)

\* ---- C23
\* the positions t of the claim at the current cycle c: t < c <= N
C23_Positions == {t \in 0..(numCyclesToTrack - 1) : t < Now /\ InWindow}

RECURSIVE ShiftedIn(_)
ShiftedIn(k) == IF k = 0 THEN 0 ELSE PastShift(ShiftedIn(k - 1), held[k])

\* C24 as claimed: building a query changes nothing in the tracker, so
\* the stores hold the same values at every cycle whichever queries were
\* built, and whether before or after elaboration: the past accumulator
\* is the shift of the driven values.
C24_SameStoresWhicheverQueries ==
    (elaborated /\ InWindow) => past_reg = ShiftedIn(Now)

\* ---- C25
\* C25 as claimed: after track(s) on tracker T, any later sequence of
\* track() calls, on T or on another tracker, registering s again or not,
\* leaves every query on s through T succeeding: the look-up of s's
\* stores in T does not raise.
C25_RegistrationKept ==
    \A T \in 1..Len(trackers) : \A s \in Signals :
        RegisteredWith(T, s) => ~regInfoForRaises(T, s)

\* ---- C26
\* an active clock edge is taken in this step
Edge == Now' = Now + 1

C26_BeforeFirstEdge == Now = 0 => (cycle = 0 /\ ~started)

C26_FirstEdge == (Edge /\ Now = 0) => (cycle' = 1 /\ cyclePassed(0)')

\* C26 as claimed: the counter is 0 and started is false before the first
\* edge; the first edge sets cycle to 1 and marks reached[0]; every later
\* edge increases cycle by exactly 1; started is true iff cycle >= 1 and
\* never becomes false again.
C26_CountsUpForEver ==
    [][/\ C26_BeforeFirstEdge
       /\ C26_FirstEdge
       /\ (Edge /\ Now >= 1) => cycle' = cycle + 1
       /\ started <=> cycle >= 1
       /\ started => started']_vars

\* C26 amended: as claimed before and at the first edge; every later edge
\* increases the counter by 1 modulo 2^bits_for(N), which is by exactly 1
\* during the first N cycles; started is true iff an edge has elapsed,
\* which is iff cycle >= 1 during the first N cycles, and it never becomes
\* false again.
C26_CountsUpModuloWidth ==
    [][/\ C26_BeforeFirstEdge
       /\ C26_FirstEdge
       /\ (Edge /\ Now >= 1) => cycle' = (cycle + 1) % (2^CycleWidth)
       /\ (Edge /\ Now >= 1 /\ Now < numCyclesToTrack) => cycle' = cycle + 1
       /\ started <=> Now >= 1
       /\ InWindow => (started <=> cycle >= 1)
       /\ started => started']_vars

\* the counter back at 0 with started still true
C26_Witness ==
    /\ elaborated
    /\ Now = 2^CycleWidth
    /\ cycle = 0
    /\ started

\* ---- C27
\* C27 as claimed: in every reachable state the cycle counter of a tracker
\* of window N lies in [0, N]: no edge takes it above N or back to a
\* smaller value.
C27_CounterWithinWindow ==
    [][cycle' \in 0..numCyclesToTrack /\ cycle' >= cycle]_vars

\* C27 amended: the counter is a bits_for(N)-bit register that counts the
\* elapsed edges modulo 2^bits_for(N): it lies in [0, N] and equals the
\* number of elapsed edges during the first N cycles, and clocked further
\* it runs on to 2^bits_for(N) - 1 and wraps to 0.
C27_CounterModuloWidth ==
    /\ cycle = Now % (2^CycleWidth)
    /\ InWindow => (cycle = Now /\ cycle \in 0..numCyclesToTrack)

\* the counter above the window
C27_Witness ==
    /\ elaborated
    /\ Now = numCyclesToTrack + 1
    /\ cycle > numCyclesToTrack

\* ---- C28
\* C28: for every position t in [0, N), cycles counted in elapsed clock
\* edges: reached[t] is false while cycle <= t and true once cycle > t,
\* no edge clears it, and reached[t] implies reached[t-1] for t >= 1.
C28_ReachedLatches ==
    [][\A t \in 0..(numCyclesToTrack - 1) :
         /\ ~cyclePassedRaises(t)
         /\ cyclePassed(t) <=> Now > t
         /\ cyclePassed(t) => cyclePassed(t)'
         /\ (t >= 1 /\ cyclePassed(t)) => cyclePassed(t - 1)]_vars

\* every position still set when the counter has wrapped and is back at
\* position 2
C28_Witness ==
    /\ elaborated
    /\ numCyclesToTrack = 3
    /\ Now = 2^CycleWidth + 2
    /\ cycle = 2
    /\ cyclePassed(0) /\ cyclePassed(1) /\ cyclePassed(2)

\* ---- C29
\* C29 as claimed: for every position t in [0, N), in every state where
\* reached[t] is set, valueAt(s, t) is the value s held during cycle t, and
\* no later clock edge writes history[t] again.
C29_WrittenOnce ==
    [][\A t \in 0..(numCyclesToTrack - 1) :
         cyclePassed(t) => /\ valueAt(t) = ValueDuring(t)
                           /\ history'[t] = history[t]]_vars

\* C29 amended: the same up to cycle 2^bits_for(N) + t, where the wrapped
\* counter passes position t again and the edge that ends that cycle
\* writes history[t] anew; in particular at every cycle up to N.
C29_WrittenOnceUntilRevisit ==
    [][\A t \in 0..(numCyclesToTrack - 1) :
         /\ ~valueAtRaises(t)
         /\ (cyclePassed(t) /\ BeforeRevisit(t))
                => valueAt(t) = ValueDuring(t)
         /\ (cyclePassed(t) /\ Now < 2^CycleWidth + t)
                => history'[t] = history[t]
         /\ (Edge /\ Now = 2^CycleWidth + t) => history'[t] = sig]_vars

\* position 0 written a second time, with another value
C29_Witness ==
    /\ elaborated
    /\ Now = 2^CycleWidth + 1
    /\ cyclePassed(0)
    /\ valueAt(0) # ValueDuring(0)
    /\ valueAt(0) = ValueDuring(2^CycleWidth)

\* ---- C30
\* C30: in every reachable state in which started is false, the past
\* accumulator, rose_past, fell_past, rose_trace, fell_trace and the rose
\* and fell flags are all zero.
C30_ZeroUntilStarted ==
    ~started =>
        /\ past_reg = 0
        /\ rose_past = 0 /\ fell_past = 0
        /\ \A t \in 0..(numCyclesToTrack - 1) :
             rose_trace[t] = 0 /\ fell_trace[t] = 0
        /\ rose_flag = 0 /\ fell_flag = 0

\* an elaborated tracker with every store in use, a non-zero value on the
\* signal, before its first edge
C30_Witness ==
    /\ PastBuilt /\ EdgesBuilt
    /\ ~started
    /\ sig # 0
    /\ past_reg = 0 /\ rose_past = 0 /\ rose_flag = 0

\* ---- C31
\* bit b of an N-bit event accumulator
EventBit(e, b) == (e \div (2^b)) % 2

PastEdgesExclusive ==
    \A b \in 0..(numCyclesToTrack - 1) :
        ~(EventBit(rose_past, b) = 1 /\ EventBit(fell_past, b) = 1)

\* C31 as claimed: in every reachable state rose_trace[t] and fell_trace[t]
\* are never both set for any t, and rose_past and fell_past never have
\* the same bit set.
C31_EdgesExclusiveForEver ==
    /\ \A t \in 0..(numCyclesToTrack - 1) :
         ~(rose_trace[t] = 1 /\ fell_trace[t] = 1)
    /\ PastEdgesExclusive

\* C31 amended: rose_past and fell_past never have the same bit set;
\* rose_trace[t] and fell_trace[t] are never both set up to cycle
\* 2^bits_for(N) + t, where the wrapped counter passes position t again
\* and may set the other trace bit, none of them ever being cleared.
C31_EdgesExclusiveUntilRevisit ==
    /\ \A t \in 0..(numCyclesToTrack - 1) :
         BeforeRevisit(t) => ~(rose_trace[t] = 1 /\ fell_trace[t] = 1)
    /\ PastEdgesExclusive

\* a rise and a fall recorded in both kinds of store
C31_Witness ==
    /\ EdgesBuilt
    /\ numCyclesToTrack = 3
    /\ InWindow
    /\ rose_trace[1] = 1 /\ fell_trace[2] = 1
    /\ EventBit(rose_past, 1) = 1 /\ EventBit(fell_past, 0) = 1

\* ---- C32
\* the Histories elaborated into the design
InDesign == {T \in 1..Len(trackers) : trackers[T].elaborated}

\* C32 as claimed: in every reachable state the cycle counters of all
\* trackers elaborated into the same clocked design are equal and their
\* started flags are equal, whatever their window sizes.
C32_LockstepForEver ==
    \A T \in InDesign : \A U \in InDesign :
        /\ trackers[T].cycle = trackers[U].cycle
        /\ trackers[T].started = trackers[U].started

\* C32 amended: their started flags are equal in every reachable state;
\* each counter holds the number of elapsed edges modulo 2^bits_for(N) of
\* its own window N, so two counters are equal as long as fewer edges than
\* 2^bits_for(N) of the smaller window have elapsed, and for ever when the
\* widths are the same.
C32_LockstepModuloWidth ==
    \A T \in InDesign : \A U \in InDesign :
        /\ trackers[T].started = trackers[U].started
        /\ trackers[T].cycle = Now % (2^bits_for(WindowOf(T)))
        /\ (Now < 2^bits_for(WindowOf(T)) /\ Now < 2^bits_for(WindowOf(U)))
               => trackers[T].cycle = trackers[U].cycle
        /\ bits_for(WindowOf(T)) = bits_for(WindowOf(U))
               => trackers[T].cycle = trackers[U].cycle

\* windows 1 and 2 in one design: in step at the first edge, apart at the
\* second
C32_Witness ==
    /\ Len(trackers) = 2
    /\ InDesign = {1, 2}
    /\ WindowOf(1) = 1 /\ WindowOf(2) = 2
    /\ Now = 2
    /\ trackers[1].started /\ trackers[2].started
    /\ trackers[1].cycle = 0
    /\ trackers[2].cycle = 2

\* ---- C33
\* C33: at every cycle c and for every k with c < k <= N, past(s, k) == 0
\* and the k-th slices of rose_past and fell_past are 0, so pastRose(s, k)
\* and pastFell(s, k) are false; for every position t not yet reached,
\* valueAt(s, t) == 0.
C33_UnelapsedReadsZero ==
    /\ \A k \in 1..numCyclesToTrack :
         Now < k =>
            /\ ~pastRaises(k) /\ past(k) = 0
            /\ ~pastRoseRaises(k) /\ ~pastFellRaises(k)
            /\ riseFallPastEvents(rose_past, k, 0) = 0
            /\ riseFallPastEvents(fell_past, k, 0) = 0
            /\ ~pastRose(k) /\ ~pastFell(k)
    /\ \A t \in 0..(numCyclesToTrack - 1) :
         ~cyclePassed(t) => (~valueAtRaises(t) /\ valueAt(t) = 0)

\* two non-zero samples recorded, the third slice and position still zero
C33_Witness ==
    /\ PastBuilt /\ EdgesBuilt
    /\ numCyclesToTrack = 3
    /\ Now = 2
    /\ past(1) # 0 /\ past(2) # 0 /\ past(3) = 0
    /\ valueAt(1) # 0 /\ ~cyclePassed(2) /\ valueAt(2) = 0
    /\ sig # 0

\* ---- C34
\* the capacity assumption has held in every state of the run so far: the
\* counter counts the elapsed edges one by one up to N, so it has been
\* below N throughout exactly when fewer than N edges have elapsed
AdmittedSoFar == elaborated /\ Now < numCyclesToTrack

\* C34: under the capacity assumption of a lone tracker, cycle < N, in
\* every admitted state reached[N-1] is false and valueAt(s, N-1) still
\* holds its initial zero.
C34_LastPositionUnobserved ==
    AdmittedSoFar =>
        /\ CapacityAssumption
        /\ ~cyclePassedRaises(numCyclesToTrack - 1)
        /\ ~cyclePassed(numCyclesToTrack - 1)
        /\ ~valueAtRaises(numCyclesToTrack - 1)
        /\ valueAt(numCyclesToTrack - 1) = 0

\* the last admitted cycle, a non-zero value on the signal about to be
\* recorded at the last position
C34_Witness ==
    /\ AdmittedSoFar
    /\ numCyclesToTrack = 3
    /\ cycle = 2
    /\ sig # 0
    /\ valueAt(1) # 0
    /\ ~cyclePassed(2) /\ valueAt(2) = 0

\* ---- C35
\* the signals of the list that are non-zero
NonZero(signalsList) == {i \in 1..Len(signalsList) : signalsList[i] # 0}

\* C35 as claimed: for every list of two or more signals and every
\* combination of their values, oneHot with allowAllFalse=False is true
\* iff exactly one signal is non-zero, and with allowAllFalse=True iff
\* exactly one signal is non-zero or all of them are zero.
C35_OneHotOrAllZero ==
    dut.statement # {} =>
        (dut.statement = {TRUE} <=>
            \/ Cardinality(NonZero(dut.signalsList)) = 1
            \/ dut.allowAllFalse /\ NonZero(dut.signalsList) = {})

\* ---- C36
\* C36: once opened is 1 at some cycle it is 1 at every later cycle,
\* whatever the later inputs are.
C36_StaysOpen == [][dut.opened = 1 => dut'.opened = 1]_vars

\* the lock open for two cycles, a wrong number and then the first key
\* received since
C36_Witness ==
    /\ dut.opened = 1
    /\ Now = 4
    /\ held = <<KEY1, KEY2, 222, KEY1>>
    /\ dut.input = 0

\* ---- C37
C37_OpensOnKeys ==
    /\ roseOf(dut, "opened")
         => /\ pastOf(dut, "input", 2) = KEY1
            /\ pastOf(dut, "input", 1) = KEY2
    /\ (pastOf(dut, "input", 3) = KEY1 /\ pastOf(dut, "input", 2) = KEY2)
         => dut.opened = 1

\* C37 as claimed: whenever rose(opened) is true at a cycle,
\* past(input, 2) == KEY1 and past(input, 1) == KEY2 at that cycle; and
\* whenever past(input, 3) == KEY1 and past(input, 2) == KEY2 hold at a
\* cycle, opened is 1 at that cycle.
C37_OpensOnKeysForEver == C37_OpensOnKeys

\* C37 amended: the same at every cycle c <= N, N the tracker's window.
C37_OpensOnKeysWithinWindow == Now <= dut.window => C37_OpensOnKeys

\* the lock just opened on KEY1, KEY2
C37_Witness ==
    /\ Now = 2
    /\ roseOf(dut, "opened")
    /\ dut.opened = 1
    /\ pastOf(dut, "input", 2) = KEY1
    /\ pastOf(dut, "input", 1) = KEY2

\* ---- C38
\* the shores one cycle ago, read through past(., 1)
LeftAlone(d) ==
    \/ /\ pastOf(d, "cabbage", 1) = pastOf(d, "goat", 1)
       /\ pastOf(d, "ferryman", 1) # pastOf(d, "cabbage", 1)
    \/ /\ pastOf(d, "wolf", 1) = pastOf(d, "goat", 1)
       /\ pastOf(d, "ferryman", 1) # pastOf(d, "goat", 1)

\* C38: whenever, one cycle ago, the goat and the cabbage were on the same
\* shore with the ferryman on the other, or the wolf and the goat were,
\* as read through past(., 1), failure is set, and it stays set at every
\* later clock edge.
C38_FailureAfterLeftAlone ==
    [][/\ LeftAlone(dut) => dut.failure = 1
       /\ (wolfWithGoat(dut) \/ goatWithCabbage(dut)) => dut'.failure = 1
       /\ dut.failure = 1 => dut'.failure = 1]_vars

\* the ferryman crossed alone in the first cycle
C38_Witness ==
    /\ Now = 1
    /\ LeftAlone(dut)
    /\ pastOf(dut, "ferryman", 1) = 1
    /\ pastOf(dut, "goat", 1) = 0
    /\ dut.failure = 1

\* ---- C39
\* C39: from the initial state, everyone on the near shore and failure 0,
\* a state with wolf, goat, cabbage and ferryman all 1 and failure still 0
\* is reachable (the witness), and failure once set is never cleared.
C39_FailureNeverCleared ==
    [][/\ Now = 0 => dut.failure = 0
       /\ dut.failure = 1 => dut'.failure = 1
       /\ fails(dut) => dut'.failure = 1]_vars

\* everyone across after seven crossings, nobody eaten and no rule broken
\* by the last crossing either
C39_Witness ==
    /\ dut.nearShoreStart
    /\ Now = MaxCrossings
    /\ dut.wolf = 1 /\ dut.goat = 1 /\ dut.cabbage = 1 /\ dut.ferryman = 1
    /\ dut.failure = 0
    /\ ~fails(dut)

\* ---- C40
C40_PastIsPrevious ==
    /\ dut.count > 0 => pastOf(dut, "count", 1) = dut.count - 1
    /\ dut.count = 0 => pastOf(dut, "count", 1) = dut.max

\* C40 as claimed: in every reachable state count <= max, and at every
\* started cycle past(count, 1) == count - 1 when count > 0 and
\* past(count, 1) == max when count == 0.
C40_CountsUpForEver ==
    /\ dut.count <= dut.max
    /\ dut.started => C40_PastIsPrevious

\* C40 amended: count <= max in every reachable state, and the same of
\* past(count, 1) at every started cycle c <= N, c counted from the last
\* reset and N the tracker's window.
C40_CountsUpWithinWindow ==
    /\ dut.count <= dut.max
    /\ (dut.started /\ Now <= dut.window) => C40_PastIsPrevious

\* the counter back at 0 from max, seen within the window
C40_Witness ==
    /\ dut.started
    /\ Now <= dut.window
    /\ dut.max = 2
    /\ dut.count = 0
    /\ pastOf(dut, "count", 1) = 2

====
